---------------------------- MODULE Spec2Model ----------------------------
(***************************************************************************)
(* Model of src/spectral/transforms.py: the spectral transform functions   *)
(* (_evi, _ndvi, _ndmi, _nbr, _brightness, _greenness, _wetness) and the   *)
(* command create_transform that reads a raster, unions the no-data mask,  *)
(* computes the requested transforms and hands the masked arrays to the    *)
(* output dataset.                                                         *)
(*                                                                         *)
(* Numbers.  A number is a pair <<n, d>> with d >= 0 in lowest terms: the  *)
(* rational n/d when d > 0, and the IEEE specials +inf = <<1,0>>,          *)
(* -inf = <<-1,0>>, NaN = <<0,0>>.  Floating-point arithmetic is modelled  *)
(* by exact rational arithmetic (rounding error is not modelled).          *)
(* An array is a record [dtype, data] with data a sequence of numbers (the *)
(* raster flattened row by row); arrays live in a heap and are referred to *)
(* by their index in it, so that aliasing is visible.                      *)
(***************************************************************************)
EXTENDS Integers, Sequences, FiniteSets, TLC

VARIABLES
    pc,              \* position in the command / in the function harness
    argv,            \* <transform>... tokens as typed by the user
    opts,            \* the options: input_scaling, output_scaling, nodata, dtype
    func_args,       \* role -> band index (--blue ... --swir2)
    source,          \* the source raster: [readable, n, bands], bands[i] = [data, nodata, dtype]
    transforms,      \* the transforms argument after click's conversion
    ds_open,         \* the source dataset has been opened
    out_dtype,       \* dtype after "default to input image dtype"
    heap,            \* address -> array, for the arrays that are alive
    transform_args,  \* role -> address of its band array (0: None, not yet read)
    bands_read,      \* roles whose band has been read
    mask,            \* the aggregated no-data mask
    _nodata,         \* role -> the sentinel its band was compared against
    next_t,          \* index of the next requested transform to compute
    _transforms,     \* the OrderedDict: sequence of [name, array, computed, step]
    out_ds,          \* the output dataset: [created, nbands, bands, metadata, dtype]
    i_b,             \* index (0-based) of the next output band to write
    err,             \* the error the command ended with ("" if none)
    fn_result        \* result of the last direct call of a transform function

vars == <<pc, argv, opts, func_args, source, transforms, ds_open, out_dtype, heap,
          transform_args, bands_read, mask, _nodata, next_t, _transforms,
          out_ds, i_b, err, fn_result>>

---------------------------------------------------------------------------
(* Numbers *)

Abs(x) == IF x < 0 THEN -x ELSE x

Sign(x) == IF x < 0 THEN -1 ELSE IF x > 0 THEN 1 ELSE 0

RECURSIVE GCD(_, _)
GCD(a, b) == IF b = 0 THEN a ELSE GCD(b, a % b)

\* n/d in lowest terms with d >= 0; anything over zero is +inf, -inf or NaN
Norm(n, d) ==
    IF d = 0 THEN <<Sign(n), 0>>
    ELSE LET g == GCD(Abs(n), Abs(d))
             s == Sign(d)
         IN  <<(s * n) \div g, (s * d) \div g>>

Num(k) == <<k, 1>>

NaN == <<0, 0>>

IsFinite(a) == a[2] # 0

IsNaN(a) == a = NaN

Add(a, b) ==
    IF IsFinite(a) /\ IsFinite(b)
    THEN LET l == (a[2] \div GCD(a[2], b[2])) * b[2]
         IN  Norm(a[1] * (l \div a[2]) + b[1] * (l \div b[2]), l)
    ELSE IF IsNaN(a) \/ IsNaN(b) THEN NaN
    ELSE IF IsFinite(a) THEN b
    ELSE IF IsFinite(b) THEN a
    ELSE IF a = b THEN a ELSE NaN

Neg(a) == <<-a[1], a[2]>>

Sub(a, b) == Add(a, Neg(b))

Mul(a, b) ==
    IF IsFinite(a) /\ IsFinite(b) /\ a[1] # 0 /\ b[1] # 0
    THEN LET g == GCD(Abs(a[1]), b[2])
             h == GCD(Abs(b[1]), a[2])
         IN  Norm((a[1] \div g) * (b[1] \div h), (a[2] \div h) * (b[2] \div g))
    ELSE Norm(a[1] * b[1], a[2] * b[2])

\* IEEE division: x/0 is +-inf, 0/0 is NaN, x/inf is 0
Div(a, b) == IF b[1] < 0 THEN Mul(a, <<-b[2], -b[1]>>) ELSE Mul(a, <<b[2], b[1]>>)

\* a <= b, for finite a and b
Leq(a, b) == a[1] * b[2] <= b[1] * a[2]

\* the integer part of a finite number (C cast: towards zero)
Trunc(a) == Sign(a[1]) * (Abs(a[1]) \div a[2])

---------------------------------------------------------------------------
(* dtypes *)

\* _np_dtypes; the 32-bit integer types are left out of the model
DTypes == {"uint8", "uint16", "int16", "float32", "float64"}

IsFloat(dt) == dt \in {"float32", "float64"}

MinOf(dt) == CASE dt = "uint8" -> 0 [] dt = "uint16" -> 0 [] dt = "int16" -> -32768

MaxOf(dt) == CASE dt = "uint8" -> 255 [] dt = "uint16" -> 65535 [] dt = "int16" -> 32767

InRange(k, dt) == MinOf(dt) <= k /\ k <= MaxOf(dt)

\* two's complement wrap of the integer k into dt
Wrap(k, dt) == MinOf(dt) + ((k - MinOf(dt)) % (MaxOf(dt) - MinOf(dt) + 1))

Clamp(k, dt) == IF k < MinOf(dt) THEN MinOf(dt) ELSE IF k > MaxOf(dt) THEN MaxOf(dt) ELSE k

\* What a float -> integer cast of a value the target cannot hold produces is
\* undefined in C; the two outcomes builds produce: truncation of the
\* converted word ("wrap": x86, where inf and NaN give 0 in a narrow type) and
\* saturation ("saturate": ARM, where NaN gives 0).
Builds == {"wrap", "saturate"}

\* _evi is the only transform function that casts
BuildsOf(func) == IF func = "_evi" THEN Builds ELSE {"wrap"}

\* ndarray.astype(dtype) of one value
AsTypeValue(v, dt, build) ==
    IF IsFloat(dt) THEN v
    ELSE IF IsFinite(v) /\ InRange(Trunc(v), dt) THEN Num(Trunc(v))
    ELSE IF build = "wrap"
         THEN IF IsFinite(v) THEN Num(Wrap(Trunc(v), dt)) ELSE Num(0)
    ELSE IF IsFinite(v) THEN Num(Clamp(Trunc(v), dt))
    ELSE IF IsNaN(v) THEN Num(0)
    ELSE IF v[1] > 0 THEN Num(MaxOf(dt)) ELSE Num(MinOf(dt))

\* array[...] = nodata for one element: a Python int stored into an array of
\* dtype dt (the numpy this script runs on, which still has np.bool, wraps)
StoreInt(k, dt) == IF IsFloat(dt) THEN Num(k) ELSE Num(Wrap(k, dt))

---------------------------------------------------------------------------
(* The transform functions *)

One == <<1, 1>>

\* Crist 1985 coefficients, in units of 1/10000
bgw_coef ==
    << <<2043, 4158, 5524, 5741, 3124, 2330>>,
       <<-1603, -2189, -4934, 7940, -2, -1446>>,
       <<315, 2021, 3102, 1954, -6806, -6109>> >>

Coef(k) == Norm(k, 10000)

\* a new float64 array, as ne.evaluate and the arithmetic operators return
NewFloat(data) == [dtype |-> "float64", data |-> data]

\* expr of _evi
EviExpr(red, nir, blue, input_scaling) ==
    [i \in 1..Len(red.data) |->
        Div(Mul(<<5, 2>>, Sub(nir.data[i], red.data[i])),
            Add(Sub(Add(nir.data[i], Mul(Num(6), red.data[i])),
                    Mul(<<15, 2>>, blue.data[i])),
                input_scaling))]

_evi(red, nir, blue, input_scaling, output_scaling, build) ==
    LET dtype == red.dtype
        evi == EviExpr(red, nir, blue, input_scaling)
        scaled == IF output_scaling # One
                  THEN [i \in 1..Len(evi) |-> Mul(evi[i], output_scaling)]
                  ELSE evi
    IN  [dtype |-> dtype,
         data |-> [i \in 1..Len(scaled) |-> AsTypeValue(scaled[i], dtype, build)]]

\* (mutant) the parentheses of the denominator are missing: (nir - x) / nir + x
RatioExprUnparenthesised(x, nir) ==
    [i \in 1..Len(nir.data) |->
        Add(Div(Sub(nir.data[i], x.data[i]), nir.data[i]), x.data[i])]

\* expr of _ndvi, _ndmi, _nbr: (nir - x) / (nir + x)
RatioExpr(x, nir) ==
    [i \in 1..Len(nir.data) |->
        Div(Sub(nir.data[i], x.data[i]), Add(nir.data[i], x.data[i]))]

ScaleOutput(expr, output_scaling) ==
    IF output_scaling = One
    THEN NewFloat(expr)
    ELSE NewFloat([i \in 1..Len(expr) |-> Mul(expr[i], output_scaling)])

_ndvi(red, nir, output_scaling) == ScaleOutput(RatioExpr(red, nir), output_scaling)

_ndmi(swir1, nir, output_scaling) == ScaleOutput(RatioExpr(swir1, nir), output_scaling)

_nbr(swir2, nir, output_scaling) == ScaleOutput(RatioExpr(swir2, nir), output_scaling)

\* expr of _brightness, _greenness, _wetness with the coefficients c
BgwExpr(c, blue, green, red, nir, swir1, swir2) ==
    [i \in 1..Len(blue.data) |->
        Add(Add(Add(Add(Add(Mul(blue.data[i], Coef(c[1])),
                            Mul(green.data[i], Coef(c[2]))),
                        Mul(red.data[i], Coef(c[3]))),
                    Mul(nir.data[i], Coef(c[4]))),
                Mul(swir1.data[i], Coef(c[5]))),
            Mul(swir2.data[i], Coef(c[6])))]

\* (mutant) the multiplication is skipped when output_scaling is 1, as in the
\* ratio indices
RescaleSkipAtOne(expr, input_scaling, output_scaling) ==
    IF output_scaling = One
    THEN NewFloat(expr)
    ELSE NewFloat([i \in 1..Len(expr) |->
                      Mul(Div(output_scaling, input_scaling), expr[i])])

\* if input_scaling == output_scaling: expr, else output_scaling /
\* input_scaling * expr
Rescale(expr, input_scaling, output_scaling) ==
    IF input_scaling = output_scaling
    THEN NewFloat(expr)
    ELSE NewFloat([i \in 1..Len(expr) |->
                      Mul(Div(output_scaling, input_scaling), expr[i])])

_brightness(blue, green, red, nir, swir1, swir2, input_scaling, output_scaling) ==
    Rescale(BgwExpr(bgw_coef[1], blue, green, red, nir, swir1, swir2),
            input_scaling, output_scaling)

_greenness(blue, green, red, nir, swir1, swir2, input_scaling, output_scaling) ==
    Rescale(BgwExpr(bgw_coef[2], blue, green, red, nir, swir1, swir2),
            input_scaling, output_scaling)

_wetness(blue, green, red, nir, swir1, swir2, input_scaling, output_scaling) ==
    Rescale(BgwExpr(bgw_coef[3], blue, green, red, nir, swir1, swir2),
            input_scaling, output_scaling)

\* the functions of the module that carry a transform_name, in the order
\* inspect.getmembers lists them (sorted by function name)
transform_funcs ==
    << [func |-> "_brightness", transform_name |-> "Brightness",
        required_bands |-> <<"blue", "green", "red", "nir", "swir1", "swir2">>],
       [func |-> "_evi", transform_name |-> "EVI",
        required_bands |-> <<"red", "nir", "blue">>],
       [func |-> "_greenness", transform_name |-> "Greenness",
        required_bands |-> <<"blue", "green", "red", "nir", "swir1", "swir2">>],
       [func |-> "_nbr", transform_name |-> "NBR",
        required_bands |-> <<"swir2", "nir">>],
       [func |-> "_ndmi", transform_name |-> "NDMI",
        required_bands |-> <<"swir1", "nir">>],
       [func |-> "_ndvi", transform_name |-> "NDVI",
        required_bands |-> <<"red", "nir">>],
       [func |-> "_wetness", transform_name |-> "Wetness",
        required_bands |-> <<"blue", "green", "red", "nir", "swir1", "swir2">>] >>

\* func(**transform_args): a holds the band arrays by role and the scalings
Call(func, a, build) ==
    CASE func = "_evi" ->
            _evi(a.red, a.nir, a.blue, a.input_scaling, a.output_scaling, build)
      [] func = "_ndvi" -> _ndvi(a.red, a.nir, a.output_scaling)
      [] func = "_ndmi" -> _ndmi(a.swir1, a.nir, a.output_scaling)
      [] func = "_nbr" -> _nbr(a.swir2, a.nir, a.output_scaling)
      [] func = "_brightness" ->
            _brightness(a.blue, a.green, a.red, a.nir, a.swir1, a.swir2,
                        a.input_scaling, a.output_scaling)
      [] func = "_greenness" ->
            _greenness(a.blue, a.green, a.red, a.nir, a.swir1, a.swir2,
                       a.input_scaling, a.output_scaling)
      [] func = "_wetness" ->
            _wetness(a.blue, a.green, a.red, a.nir, a.swir1, a.swir2,
                     a.input_scaling, a.output_scaling)

---------------------------------------------------------------------------
(* The command line *)

\* _transforms, the module-level list of choices
transform_choices ==
    {"evi", "ndvi", "ndmi", "nbr", "brightness", "greenness", "wetness"}

\* str.lower on the strings of the model
Lower(s) ==
    CASE s = "NDVI" -> "ndvi" [] s = "EVI" -> "evi" [] s = "NDMI" -> "ndmi"
      [] s = "NBR" -> "nbr" [] s = "Brightness" -> "brightness"
      [] s = "Greenness" -> "greenness" [] s = "Wetness" -> "wetness"
      [] s = "Evi" -> "evi"
      [] OTHER -> s

\* (mutant) the argument has no click.Choice type: any string is taken
ChoiceConvertAny(value) == <<Lower(value)>>

\* click.Choice(_transforms).convert under token_normalize_func: the choice
\* the token names, or <<>> when it names none
ChoiceConvert(value) ==
    IF value \in transform_choices THEN <<value>>
    ELSE IF Lower(value) \in transform_choices THEN <<Lower(value)>>
    ELSE <<>>

Roles == {"blue", "green", "red", "nir", "swir1", "swir2"}

\* defaults of --blue ... --swir2
DefaultBands ==
    [r \in Roles |->
        CASE r = "blue" -> 1 [] r = "green" -> 2 [] r = "red" -> 3
          [] r = "nir" -> 4 [] r = "swir1" -> 5 [] r = "swir2" -> 6]

\* required_bands after the update loop: the union over transform_funcs
required_bands ==
    UNION {{transform_funcs[k].required_bands[j] :
                j \in 1..Len(transform_funcs[k].required_bands)} :
           k \in 1..Len(transform_funcs)}

\* an output dataset: bands and metadata are keyed by the band number n
\* (GetRasterBand(n), 'Band_' + str(n))
NoOutput == [created |-> FALSE, nbands |-> 0, dtype |-> "", bands |-> <<>>,
             metadata |-> <<>>]

NoResult == [func |-> "", out |-> NewFloat(<<>>)]

EmptyHeap == [a \in {} |-> NewFloat(<<>>)]

\* the state before the command runs, for given inputs
Start(tokens, options, bandmap, raster) ==
    /\ pc = "cli"
    /\ argv = tokens
    /\ opts = options
    /\ func_args = bandmap
    /\ source = raster
    /\ transforms = <<>>
    /\ ds_open = FALSE
    /\ out_dtype = ""
    /\ heap = EmptyHeap
    /\ transform_args = [r \in {} |-> 0]
    /\ bands_read = {}
    /\ mask = <<>>
    /\ _nodata = [r \in {} |-> Num(0)]
    /\ next_t = 0
    /\ _transforms = <<>>
    /\ out_ds = NoOutput
    /\ i_b = 0
    /\ err = ""
    /\ fn_result = NoResult

Fail(e) ==
    /\ pc' = "error"
    /\ err' = e

\* click converts every <transform> token with click.Choice before the body
\* of create_transform runs; a token that names no choice ends the command
ParseArgs ==
    /\ pc = "cli"
    /\ IF \E i \in 1..Len(argv) : ChoiceConvert(argv[i]) = <<>>
       THEN /\ Fail("UnknownTransform")
            /\ UNCHANGED transforms
       ELSE /\ transforms' = [i \in 1..Len(argv) |-> ChoiceConvert(argv[i])[1]]
            /\ pc' = "body"
            /\ UNCHANGED err
    /\ UNCHANGED <<argv, opts, func_args, source, ds_open, out_dtype, heap,
                   transform_args, bands_read, mask, _nodata, next_t, _transforms,
                   out_ds, i_b, fn_result>>

\* (mutant) the check for an empty request is missing
CheckTransformsNoRaise ==
    /\ pc = "body"
    /\ pc' = "open"
    /\ UNCHANGED <<argv, opts, func_args, source, transforms, ds_open, out_dtype,
                   heap, transform_args, bands_read, mask, _nodata, next_t,
                   _transforms, out_ds, i_b, err, fn_result>>

\* if not transforms: raise click.BadParameter('No transforms specified')
CheckTransforms ==
    /\ pc = "body"
    /\ IF transforms = <<>>
       THEN Fail("NoTransformsSpecified")
       ELSE pc' = "open" /\ UNCHANGED err
    /\ UNCHANGED <<argv, opts, func_args, source, transforms, ds_open, out_dtype,
                   heap, transform_args, bands_read, mask, _nodata, next_t,
                   _transforms, out_ds, i_b, fn_result>>

\* gdal.Open; the output dtype defaults to the dtype of band 1
OpenSource ==
    /\ pc = "open"
    /\ IF source.readable
       THEN /\ ds_open' = TRUE
            /\ out_dtype' = IF opts.dtype = "" THEN source.bands[1].dtype
                            ELSE opts.dtype
            /\ pc' = "prepare"
            /\ UNCHANGED err
       ELSE /\ Fail("DatasetOpenError")
            /\ UNCHANGED <<ds_open, out_dtype>>
    /\ UNCHANGED <<argv, opts, func_args, source, transforms, heap,
                   transform_args, bands_read, mask, _nodata, next_t, _transforms,
                   out_ds, i_b, fn_result>>

\* transform_args = dict.fromkeys(required_bands); mask = np.zeros(...)
PrepareRead ==
    /\ pc = "prepare"
    /\ transform_args' = [r \in required_bands |-> 0]
    /\ mask' = [i \in 1..source.n |-> FALSE]
    /\ pc' = "read"
    /\ UNCHANGED <<argv, opts, func_args, source, transforms, ds_open, out_dtype,
                   heap, bands_read, _nodata, next_t, _transforms, out_ds, i_b, err,
                   fn_result>>

\* GetNoDataValue() or nodata
SentinelOf(declared, nodata) ==
    IF declared = <<>> \/ declared[1] = 0 THEN nodata ELSE declared[1]

\* the address of the new array ReadAsArray returns for role b: addresses are
\* arbitrary names, and the model names a band array after its role so that
\* the order of the reads does not show in the heap
BandAddress(b) ==
    CASE b = "blue" -> 1 [] b = "green" -> 2 [] b = "red" -> 3
      [] b = "nir" -> 4 [] b = "swir1" -> 5 [] b = "swir2" -> 6

\* one pass of the loop over transform_args.keys(), whose order is that of a
\* dict built from a set: any role not yet read may come next
ReadBand(b) ==
    /\ pc = "read"
    /\ b \in required_bands \ bands_read
    /\ LET idx == func_args[b]
           band == source.bands[idx]
           array == [dtype |-> band.dtype,
                     data |-> [i \in 1..source.n |-> Num(band.data[i])]]
           sentinel == SentinelOf(band.nodata, opts.nodata)
       IN  /\ heap' = (BandAddress(b) :> array) @@ heap
           /\ transform_args' = [transform_args EXCEPT ![b] = BandAddress(b)]
           /\ _nodata' = (b :> Num(sentinel)) @@ _nodata
           /\ mask' = [i \in 1..source.n |-> mask[i] \/ array.data[i] = Num(sentinel)]
    /\ bands_read' = bands_read \cup {b}
    /\ UNCHANGED <<pc, argv, opts, func_args, source, transforms, ds_open,
                   out_dtype, next_t, _transforms, out_ds, i_b, err, fn_result>>

\* transform_args['input_scaling'] = ...; _transforms = OrderedDict()
StartCompute ==
    /\ pc = "read"
    /\ bands_read = required_bands
    /\ pc' = "compute"
    /\ next_t' = 1
    /\ _transforms' = <<>>
    /\ UNCHANGED <<argv, opts, func_args, source, transforms, ds_open, out_dtype,
                   heap, transform_args, bands_read, mask, _nodata, out_ds, i_b,
                   err, fn_result>>

\* the keyword arguments of func(**transform_args)
KwArgs ==
    [blue |-> heap[transform_args["blue"]], green |-> heap[transform_args["green"]],
     red |-> heap[transform_args["red"]], nir |-> heap[transform_args["nir"]],
     swir1 |-> heap[transform_args["swir1"]], swir2 |-> heap[transform_args["swir2"]],
     input_scaling |-> opts.input_scaling, output_scaling |-> opts.output_scaling]

\* (mutant) _evi computes in place, in the array of the red band
ResultAddressInPlace(func, h, targs) ==
    IF func = "_evi" THEN targs["red"]
    ELSE LET first == Cardinality(Roles) + 1
         IN  CHOOSE a \in first..(first + Cardinality(DOMAIN h)) :
                 /\ a \notin DOMAIN h
                 /\ \A c \in first..(a - 1) : c \in DOMAIN h

\* the address of the array a transform function returns: ne.evaluate, the
\* arithmetic operators and astype all return a new array
ResultAddress(func, h, targs) ==
    LET first == Cardinality(Roles) + 1
    IN  CHOOSE a \in first..(first + Cardinality(DOMAIN h)) :
            /\ a \notin DOMAIN h
            /\ \A c \in first..(a - 1) : c \in DOMAIN h

\* (mutant) a plain dict whose keys come out in the order of the registry
RegistryOrderSet(d, entry) ==
    LET names == {d[k].name : k \in 1..Len(d)} \cup {entry.name}
        value(nm) == IF nm = entry.name THEN entry
                     ELSE d[CHOOSE k \in 1..Len(d) : d[k].name = nm]
        inorder == SelectSeq(transform_funcs, LAMBDA tf : tf.transform_name \in names)
    IN  [k \in 1..Len(inorder) |-> value(inorder[k].transform_name)]

\* d[key] = value on an OrderedDict: a new key goes last, a key already
\* there keeps its place
OrderedDictSet(d, entry) ==
    IF \E k \in 1..Len(d) : d[k].name = entry.name
    THEN [k \in 1..Len(d) |-> IF d[k].name = entry.name THEN entry ELSE d[k]]
    ELSE Append(d, entry)

\* the addresses the OrderedDict refers to
Referenced(d) == {d[k].array : k \in 1..Len(d)}

\* one pass of "for t in transforms"
ComputeTransform ==
    /\ pc = "compute"
    /\ next_t <= Len(transforms)
    /\ LET t == transforms[next_t]
           found == SelectSeq(transform_funcs, LAMBDA tf : Lower(tf.transform_name) = t)
       IN  IF found = <<>>
           THEN /\ Fail("IndexError")
                /\ UNCHANGED <<heap, _transforms, next_t>>
           ELSE \E build \in BuildsOf(found[1].func) :
                LET func == found[1]
                    result == Call(func.func, KwArgs, build)
                    addr == ResultAddress(func.func, heap, transform_args)
                    entry == [name |-> func.transform_name, array |-> addr,
                              computed |-> result.data, step |-> next_t]
                    d == OrderedDictSet(_transforms, entry)
                    alive == {a \in DOMAIN heap \cup {addr} :
                                 a <= Cardinality(Roles) \/ a \in Referenced(d)}
                IN  /\ heap' = [a \in alive |-> IF a = addr THEN result ELSE heap[a]]
                    /\ _transforms' = d
                    /\ next_t' = next_t + 1
                    /\ UNCHANGED <<pc, err>>
    /\ UNCHANGED <<argv, opts, func_args, source, transforms, ds_open, out_dtype,
                   transform_args, bands_read, mask, _nodata, out_ds, i_b, fn_result>>

\* transforms = _transforms; out_ds = driver.Create(...); metadata = {}
CreateOutput ==
    /\ pc = "compute"
    /\ next_t > Len(transforms)
    /\ out_ds' = [created |-> TRUE, nbands |-> Len(_transforms), dtype |-> out_dtype,
                  bands |-> <<>>, metadata |-> <<>>]
    /\ i_b' = 0
    /\ pc' = "write"
    /\ UNCHANGED <<argv, opts, func_args, source, transforms, ds_open, out_dtype,
                   heap, transform_args, bands_read, mask, _nodata, next_t,
                   _transforms, err, fn_result>>

\* array[mask] = nodata
MaskArray(array, m, nodata) ==
    [array EXCEPT !.data = [i \in 1..Len(array.data) |->
                               IF m[i] THEN StoreInt(nodata, array.dtype)
                               ELSE array.data[i]]]

\* one pass of the loop over the OrderedDict: mask the array in place and
\* hand it to the output band
WriteBand ==
    /\ pc = "write"
    /\ i_b < Len(_transforms)
    /\ LET name == _transforms[i_b + 1].name
           addr == _transforms[i_b + 1].array
           array == MaskArray(heap[addr], mask, opts.nodata)
       IN  /\ heap' = [heap EXCEPT ![addr] = array]
           /\ out_ds' = [out_ds EXCEPT
                  !.bands = ((i_b + 1) :> [array |-> array.data, description |-> name,
                                           nodata |-> opts.nodata]) @@ @,
                  !.metadata = ((i_b + 1) :> name) @@ @]
    /\ i_b' = i_b + 1
    /\ UNCHANGED <<pc, argv, opts, func_args, source, transforms, ds_open,
                   out_dtype, transform_args, bands_read, mask, _nodata, next_t,
                   _transforms, err, fn_result>>

\* SetMetadata, SetProjection, SetGeoTransform
Finish ==
    /\ pc = "write"
    /\ i_b = Len(_transforms)
    /\ pc' = "done"
    /\ UNCHANGED <<argv, opts, func_args, source, transforms, ds_open, out_dtype,
                   heap, transform_args, bands_read, mask, _nodata, next_t,
                   _transforms, out_ds, i_b, err, fn_result>>

Next ==
    \/ ParseArgs
    \/ CheckTransforms
    \/ OpenSource
    \/ PrepareRead
    \/ \E b \in Roles : ReadBand(b)
    \/ StartCompute
    \/ ComputeTransform
    \/ CreateOutput
    \/ WriteBand
    \/ Finish

---------------------------------------------------------------------------
(* Inputs of the command *)

\* longest request
MaxReq == 3

\* what the user may type for a <transform>: choices, a choice spelled in
\* another case, and a name that is no transform
Tokens == {"evi", "ndvi", "ndmi", "nbr", "brightness", "NDVI", "ndwi"}

Requests == UNION {[1..k -> Tokens] : k \in 0..MaxReq}

Option(is, os, nd, dt) ==
    [input_scaling |-> Num(is), output_scaling |-> Num(os), nodata |-> nd, dtype |-> dt]

\* the defaults of the options, and unit scaling with a float output
Options == {Option(10000, 10000, -9999, ""), Option(1, 1, -9999, "float32")}

\* a raster of dtype dt; declared[k] is band k's declared no-data value
\* (<<>>: none), pixels[i][k] the value of band k at pixel i
Raster(dt, declared, pixels) ==
    [readable |-> TRUE, n |-> Len(pixels),
     bands |-> [k \in 1..6 |->
                   [dtype |-> dt, nodata |-> declared[k],
                    data |-> [i \in 1..Len(pixels) |-> pixels[i][k]]]]]

\* 16-bit reflectance with -9999 declared on every band; red is no-data at
\* the second pixel
Landsat ==
    Raster("int16", [k \in 1..6 |-> <<-9999>>],
           << <<50, 80, 100, 200, 150, 120>>, <<50, 80, -9999, 200, 150, 120>> >>)

\* 8-bit imagery: 0 declared on blue and green, 255 on red, nothing on the
\* others; green is no-data at the first pixel, red at the second
Byte ==
    Raster("uint8", << <<0>>, <<0>>, <<255>>, <<>>, <<>>, <<>> >>,
           << <<10, 0, 20, 100, 60, 40>>, <<10, 30, 255, 100, 60, 40>> >>)

\* floating-point imagery that declares no no-data value; the first pixel is
\* all zero, the second holds the default no-data value in swir2
Float ==
    Raster("float32", [k \in 1..6 |-> <<>>],
           << <<0, 0, 0, 0, 0, 0>>, <<10, 30, 20, 100, 60, -9999>> >>)

\* a file gdal.Open cannot read
Unreadable == [Landsat EXCEPT !.readable = FALSE]

Sources == {Landsat, Byte, Float, Unreadable}

Init ==
    \E tokens \in Requests, options \in Options, raster \in Sources :
        Start(tokens, options, DefaultBands, raster)

Spec == Init /\ [][Next]_vars

---------------------------------------------------------------------------
(* Direct calls of the transform functions *)

\* largest band value of the grid of inputs
MaxVal == 1

FnVals == (-1)..MaxVal

\* one pixel per band, in the order blue, green, red, nir, swir1, swir2:
\* the grid, and the pixels of the documented examples
FnPixels ==
    [1..6 -> FnVals] \cup {<<10, 0, 20, 100, 0, 0>>, <<50, 0, 100, 200, 0, 0>>}

\* pairs <<input_scaling, output_scaling>>
FnScalings ==
    {<<1, 1>>, <<1, 2>>, <<1, 10000>>, <<2, 1>>, <<10000, 10000>>}

FnDTypes == {"int16", "float64"}

InitFn ==
    \E p \in FnPixels, dt \in FnDTypes, sc \in FnScalings :
        /\ pc = "fn"
        /\ argv = <<>>
        /\ opts = Option(sc[1], sc[2], -9999, "")
        /\ func_args = DefaultBands
        /\ source = Raster(dt, [k \in 1..6 |-> <<>>], <<p>>)
        /\ transforms = <<>>
        /\ ds_open = FALSE
        /\ out_dtype = ""
        /\ heap = [a \in 1..6 |-> [dtype |-> dt, data |-> <<Num(p[a])>>]]
        /\ transform_args = [r \in Roles |-> BandAddress(r)]
        /\ bands_read = {}
        /\ mask = <<>>
        /\ _nodata = [r \in {} |-> Num(0)]
        /\ next_t = 0
        /\ _transforms = <<>>
        /\ out_ds = NoOutput
        /\ i_b = 0
        /\ err = ""
        /\ fn_result = NoResult

\* func(**transform_args) for one of the transform functions
CallFunction ==
    /\ pc = "fn"
    /\ fn_result = NoResult
    /\ \E k \in 1..Len(transform_funcs) :
           \E build \in BuildsOf(transform_funcs[k].func) :
               fn_result' = [func |-> transform_funcs[k].func,
                             out |-> Call(transform_funcs[k].func, KwArgs, build)]
    /\ UNCHANGED <<pc, argv, opts, func_args, source, transforms, ds_open,
                   out_dtype, heap, transform_args, bands_read, mask, _nodata,
                   next_t, _transforms, out_ds, i_b, err>>

NextFn == CallFunction

SpecFn == InitFn /\ [][NextFn]_vars

---------------------------------------------------------------------------
(* Properties of the command *)

NothingDone ==
    /\ ~ds_open
    /\ DOMAIN heap = {}
    /\ bands_read = {}
    /\ _transforms = <<>>
    /\ ~out_ds.created

\* C4: a request with no transform ends with the no-transforms-specified
\* error and never opens the source, reads a band, computes a transform or
\* creates an output dataset.
EmptyRequestFailsBeforeIO ==
    argv = <<>> =>
        /\ pc \in {"cli", "body", "error"}
        /\ pc = "error" => err = "NoTransformsSpecified"
        /\ NothingDone

EmptyRequestRejected ==
    /\ argv = <<>>
    /\ pc = "error"
    /\ err = "NoTransformsSpecified"

\* the identifiers of the fixed set, compared without regard to case
IsKnown(token) ==
    Lower(token) \in {"evi", "ndvi", "ndmi", "nbr", "brightness", "greenness", "wetness"}

UnknownAt(i) == i \in 1..Len(argv) /\ ~IsKnown(argv[i])

\* C5: a request with an identifier outside the fixed set, at any position,
\* ends with the unknown-transform error before a band is read or a
\* transform computed, and creates no output dataset.
UnknownTransformFailsFast ==
    (\E i \in 1..Len(argv) : UnknownAt(i)) =>
        /\ pc \in {"cli", "error"}
        /\ pc = "error" => err = "UnknownTransform"
        /\ NothingDone

\* the unknown identifier stands last, after known ones
UnknownLastRejected ==
    /\ Len(argv) > 1
    /\ UnknownAt(Len(argv))
    /\ \A i \in 1..(Len(argv) - 1) : IsKnown(argv[i])
    /\ pc = "error"
    /\ err = "UnknownTransform"

\* the no-data sentinel of the band of role b: the value the source declares
\* for it, the nodata option when the source declares none
OwnSentinel(b) ==
    LET declared == source.bands[func_args[b]].nodata
    IN  IF declared = <<>> THEN opts.nodata ELSE declared[1]

HoldsSentinel(b, i) == source.bands[func_args[b]].data[i] = OwnSentinel(b)

MaskComplete == pc \in {"compute", "write", "done"}

\* C1: once every band is read, a pixel is masked if and only if one of the
\* six bands holds its own no-data sentinel at that pixel.
MaskIsUnionOfSentinels ==
    MaskComplete =>
        \A i \in 1..source.n : mask[i] <=> \E b \in Roles : HoldsSentinel(b, i)

\* C2: the sentinel a band was compared against is the value the source
\* declares for the band, whatever that value is, and the nodata option only
\* when the source declares none.
SentinelIsDeclaredValue ==
    \A b \in bands_read : _nodata[b] = Num(OwnSentinel(b))

\* C3: in every output band handed over, a masked pixel holds the output
\* no-data value and an unmasked pixel the value the transform computed.
MaskedOutputsHoldNoData ==
    \A n \in DOMAIN out_ds.bands : \A i \in 1..source.n :
        out_ds.bands[n].array[i] =
            IF mask[i] THEN Num(opts.nodata) ELSE _transforms[n].computed[i]

\* position of the first and of the last request for transform t
FirstRequest(t) ==
    CHOOSE i \in 1..Len(transforms) :
        transforms[i] = t /\ \A j \in 1..(i - 1) : transforms[j] # t

LastRequest(t) ==
    CHOOSE i \in 1..Len(transforms) :
        transforms[i] = t /\ \A j \in (i + 1)..Len(transforms) : transforms[j] # t

DisplayNames == {"EVI", "NDVI", "NDMI", "NBR", "Brightness", "Greenness", "Wetness"}

\* C6: the output has one band per distinct requested transform, in the
\* order in which the transforms were (first) requested; a band holds the
\* latest computation of its transform; Band_<n> is the name of band n.
OutputFollowsRequestOrder ==
    pc = "done" =>
        LET nb == out_ds.nbands
            name(n) == out_ds.bands[n].description
        IN  /\ nb = Cardinality({transforms[i] : i \in 1..Len(transforms)})
            /\ DOMAIN out_ds.bands = 1..nb
            /\ DOMAIN out_ds.metadata = 1..nb
            /\ \A n \in 1..nb :
                 /\ name(n) \in DisplayNames
                 /\ \E i \in 1..Len(transforms) : transforms[i] = Lower(name(n))
                 /\ out_ds.metadata[n] = name(n)
                 /\ _transforms[n].name = name(n)
                 /\ _transforms[n].step = LastRequest(Lower(name(n)))
                 /\ \A i \in 1..source.n :
                      ~mask[i] => out_ds.bands[n].array[i] = _transforms[n].computed[i]
            /\ \A m \in 1..nb : \A n \in (m + 1)..nb :
                 FirstRequest(Lower(name(m))) < FirstRequest(Lower(name(n)))

\* a request that repeats its first transform after another one is done
RepeatedRequestDone ==
    /\ pc = "done"
    /\ Len(transforms) = 3
    /\ transforms[1] = transforms[3]
    /\ transforms[1] # transforms[2]
    /\ out_ds.nbands = 2

InputAddresses == {transform_args[r] : r \in DOMAIN transform_args}

\* C10: a step that computes a transform leaves the mask, the band arrays
\* and the arrays of the other transforms as they are; a step that masks an
\* output happens when every requested transform is computed, and changes
\* only the array of that output, which is no band array and no other
\* output's array.
ComputeAndMaskFrame ==
    [][ /\ (pc = "compute" /\ next_t' = next_t + 1) =>
             /\ mask' = mask
             /\ InputAddresses \subseteq DOMAIN heap'
             /\ \A a \in DOMAIN heap \cap DOMAIN heap' : heap'[a] = heap[a]
             /\ out_ds' = out_ds
        /\ (pc = "write" /\ i_b' = i_b + 1) =>
             LET own == _transforms[i_b + 1].array
             IN  /\ next_t = Len(transforms) + 1
                 /\ \A i \in 1..Len(transforms) :
                      \E k \in 1..Len(_transforms) :
                          Lower(_transforms[k].name) = transforms[i]
                 /\ mask' = mask
                 /\ own \notin InputAddresses
                 /\ \A k \in 1..Len(_transforms) :
                      k # i_b + 1 => _transforms[k].array # own
                 /\ DOMAIN heap' = DOMAIN heap
                 /\ \A a \in DOMAIN heap \ {own} : heap'[a] = heap[a]
      ]_vars

\* two outputs have been masked at a pixel where the mask is set
TwoOutputsMasked ==
    /\ pc = "done"
    /\ out_ds.nbands >= 2
    /\ \E i \in 1..source.n : mask[i]

\* the value of the enhanced vegetation index at pixel i of the source:
\* 2.5 (nir - red) / (nir + 6 red - 7.5 blue + input_scaling), times
\* output_scaling
EviValue(i) ==
    LET blue == Num(source.bands[func_args["blue"]].data[i])
        red == Num(source.bands[func_args["red"]].data[i])
        nir == Num(source.bands[func_args["nir"]].data[i])
        denominator == Add(Sub(Add(nir, Mul(Num(6), red)), Mul(<<15, 2>>, blue)),
                           opts.input_scaling)
    IN  Mul(Div(Mul(<<5, 2>>, Sub(nir, red)), denominator), opts.output_scaling)

\* C9: with a floating-point output dtype, the EVI band holds the value of
\* the formula at every unmasked pixel, whatever the dtype of the input bands.
EviBandHoldsFormula ==
    (pc = "done" /\ IsFloat(out_ds.dtype)) =>
        \A n \in DOMAIN out_ds.bands :
            out_ds.bands[n].description = "EVI" =>
                \A i \in 1..source.n :
                    ~mask[i] => out_ds.bands[n].array[i] = EviValue(i)

---------------------------------------------------------------------------
(* Properties of the transform functions *)

BandValue(role, i) == heap[transform_args[role]].data[i]

\* the band a ratio index sets against nir
RatioBand(func) ==
    CASE func = "_ndvi" -> "red" [] func = "_ndmi" -> "swir1" [] func = "_nbr" -> "swir2"

RatioCase(i) ==
    /\ fn_result.func \in {"_ndvi", "_ndmi", "_nbr"}
    /\ Leq(Num(0), BandValue(RatioBand(fn_result.func), i))
    /\ Leq(Num(0), BandValue("nir", i))
    /\ ~(BandValue(RatioBand(fn_result.func), i) = Num(0) /\ BandValue("nir", i) = Num(0))
    /\ Leq(Num(0), opts.output_scaling) /\ opts.output_scaling # Num(0)

\* C7: where the two bands of the ratio are non-negative and not both zero
\* and output_scaling is positive, NDVI, NDMI and NBR lie between
\* -output_scaling and output_scaling.
RatioIndicesBounded ==
    \A i \in 1..Len(fn_result.out.data) :
        RatioCase(i) =>
            /\ IsFinite(fn_result.out.data[i])
            /\ Leq(Neg(opts.output_scaling), fn_result.out.data[i])
            /\ Leq(fn_result.out.data[i], opts.output_scaling)

\* an index that reaches the bound under a scaling other than 1
RatioAtBound ==
    /\ RatioCase(1)
    /\ opts.output_scaling # One
    /\ fn_result.out.data[1] = opts.output_scaling

\* the factors k of the linearity property
LinearityFactors == {<<2, 1>>, <<1, 2>>, <<10000, 1>>}

TimesK(array, k) ==
    [array EXCEPT !.data = [i \in 1..Len(array.data) |-> Mul(k, array.data[i])]]

\* the arguments of the call with every band multiplied by k and
\* input_scaling = k
ScaledKwArgs(k) ==
    [blue |-> TimesK(KwArgs.blue, k), green |-> TimesK(KwArgs.green, k),
     red |-> TimesK(KwArgs.red, k), nir |-> TimesK(KwArgs.nir, k),
     swir1 |-> TimesK(KwArgs.swir1, k), swir2 |-> TimesK(KwArgs.swir2, k),
     input_scaling |-> k, output_scaling |-> KwArgs.output_scaling]

TasseledCapCase ==
    /\ fn_result.func \in {"_brightness", "_greenness", "_wetness"}
    /\ opts.input_scaling = One

=============================================================================
